---- MODULE Spec2Model ----
(***************************************************************************)
(* Order-book synchronisation of GateioFutures                             *)
(* (cryptofeed/exchanges/gateio_futures.py): the REST snapshot, the        *)
(* update-id validation, the application of an order_book_update batch and *)
(* the global reset.                                                       *)
(***************************************************************************)
EXTENDS Integers, Sequences, FiniteSets, TLC

(***************************************************************************)
(* Bounds of the model.                                                    *)
(***************************************************************************)
\* largest update id the venue hands out (snapshot ids and U/u of a batch)
MaxSeq == 3
\* largest number of bid updates in one batch
MaxUpd == 2
MaxTasks == 2

(***************************************************************************)
(* Python values.                                                          *)
(***************************************************************************)
\* Optional values: None is the empty tuple, a present value x is <<x>>.
None == <<>>
Some(x) == <<x>>

\* dict[k] = v
Put(d, k, v) == [x \in (DOMAIN d) \cup {k} |-> IF x = k THEN v ELSE d[x]]
\* del dict[k]
Del(d, k) == [x \in (DOMAIN d) \ {k} |-> d[x]]
\* {}
EmptyDict == <<>>

\* The numeric literals of the wire format and the number Decimal(...) makes
\* of each; any other text makes Decimal(...) raise.
DecimalValue == ("0" :> 0) @@ ("1" :> 1) @@ ("1.0" :> 1) @@ ("2" :> 2) @@ ("3" :> 3)
Parses(tok) == tok \in DOMAIN DecimalValue
Decimal(tok) == DecimalValue[tok]

BID == "bid"
ASK == "ask"

(***************************************************************************)
(* Inputs: the venue's messages and REST responses.                        *)
(***************************************************************************)
ExchangeSymbols == {"BTC_USD", "ETH_USD"}
\* Feed.exchange_symbol_to_std_symbol
StdSymbol(s) == IF s = "BTC_USD" THEN "BTC-USD" ELSE "ETH-USD"
Symbols == {StdSymbol(s) : s \in ExchangeSymbols}

\* The level lists a batch may carry. BTC_USD batches take up to MaxUpd bid
\* levels (a removal and a size for price 1, a size and an unparsable size
\* for price 2) and at most one ask level; ETH_USD batches at most one bid
\* removal.
BidLevels ==
    { [p |-> "1", s |-> "0"], [p |-> "1", s |-> "2"],
      [p |-> "2", s |-> "2"], [p |-> "2", s |-> "x"] }
AskLevels == [p : {"3"}, s : {"0", "1"}]
SeqsUpTo(S, n) == UNION {[1..k -> S] : k \in 0..n}
BidUpdates(s) ==
    IF s = "BTC_USD" THEN SeqsUpTo(BidLevels, MaxUpd)
    ELSE {<<>>, <<[p |-> "1", s |-> "0"]>>}
AskUpdates(s) ==
    IF s = "BTC_USD" THEN {<<>>} \cup {<<l>> : l \in AskLevels} ELSE {<<>>}

\* A batch spans the update ids U..u of the venue, so U <= u.
SeqRanges == {r \in [U : 1..MaxSeq, u : 1..MaxSeq] : r.U <= r.u}

\* Responses of GET order_book: the fetch fails, or the payload lacks "id",
\* or it is a depth snapshot with positive sizes (for BTC_USD one body is
\* empty and one carries an unparsable ask size).
SnapshotBodies(s) ==
    IF s = "BTC_USD"
    THEN { [bids |-> <<>>, asks |-> <<>>],
           [bids |-> <<[p |-> "1.0", s |-> "1"], [p |-> "2", s |-> "1"]>>,
            asks |-> <<[p |-> "3", s |-> "2"]>>],
           [bids |-> <<[p |-> "1", s |-> "2"]>>, asks |-> <<[p |-> "3", s |-> "x"]>>] }
    ELSE { [bids |-> <<[p |-> "1", s |-> "1"]>>, asks |-> <<[p |-> "3", s |-> "1"]>>] }
NoLevels == [bids |-> <<>>, asks |-> <<>>]
Response(kind, id, body) == [kind |-> kind, id |-> id, bids |-> body.bids, asks |-> body.asks]
SnapshotResponses(s) ==
    {Response(k, 0, NoLevels) : k \in {"fetch_error", "no_id"}}
    \cup {Response("ok", i, b) : i \in 0..MaxSeq, b \in SnapshotBodies(s)}
\* no request was made
NoResponse == Response("none", 0, NoLevels)

(***************************************************************************)
(* State.                                                                  *)
(***************************************************************************)
VARIABLES
    l2_book,        \* self._l2_book: dict symbol -> book [bid, ask], each price -> size
    last_update_id, \* self.last_update_id: dict symbol -> id
    forced,         \* the symbols p with self.forced[p] true (defaultdict(bool))
    emitted,        \* the book events the last handler call gave to book_callback
    last,           \* what the last handler call was given and which path it took
    venue,          \* the venue's update stream: venue[n] is the level change of id n
    tasks           \* the handler coroutines in flight, each with its position

vars == <<l2_book, last_update_id, forced, emitted, last, venue, tasks>>

\* The handler's own state, threaded through the methods below.
Self == [l2_book |-> l2_book, last_update_id |-> last_update_id, forced |-> forced,
         emitted |-> <<>>, raised |-> "", reset |-> FALSE]

(***************************************************************************)
(* GateioFutures._reset                                                    *)
(***************************************************************************)
\* (mutant) only the books are dropped, ids and flags survive
ResetBooksOnly(self) ==
    [self EXCEPT !.l2_book = EmptyDict, !.reset = TRUE]

\* (mutant) books and ids are dropped, the flags survive
ResetKeepsForced(self) ==
    [self EXCEPT !.l2_book = EmptyDict, !.last_update_id = EmptyDict, !.reset = TRUE]

\* (mutant) ids and flags are dropped, the books survive
ResetKeepsBooks(self) ==
    [self EXCEPT !.last_update_id = EmptyDict, !.forced = {}, !.reset = TRUE]

Reset(self) ==
    [self EXCEPT !.l2_book = EmptyDict, !.last_update_id = EmptyDict, !.forced = {},
                 !.reset = TRUE]

(***************************************************************************)
(* GateioFutures._snapshot                                                 *)
(***************************************************************************)
\* {Decimal(_item['p']): Decimal(_item['s']) for _item in levels}
RECURSIVE LevelDict(_)
LevelDict(levels) ==
    IF levels = <<>> THEN EmptyDict
    ELSE LET n == Len(levels)
         IN  Put(LevelDict(SubSeq(levels, 1, n - 1)),
                 Decimal(levels[n].p), Decimal(levels[n].s))
LevelsParse(levels) == \A i \in 1..Len(levels) : Parses(levels[i].p) /\ Parses(levels[i].s)

\* OrderBook(self.id, symbol, max_depth=self.max_depth)
OrderBook == [bid |-> EmptyDict, ask |-> EmptyDict]

BookEvent(symbol, book, delta, sequence_number) ==
    [symbol |-> symbol, book |-> book, delta |-> delta, sequence_number |-> sequence_number]

Snapshot(self, exsym, resp) ==
    LET symbol == StdSymbol(exsym)
        s1 == [self EXCEPT !.l2_book = Put(@, symbol, OrderBook)]
        s2 == [s1 EXCEPT !.last_update_id = Put(@, symbol, resp.id)]
        s3 == [s2 EXCEPT !.l2_book[symbol].bid = LevelDict(resp.bids)]
        s4 == [s3 EXCEPT !.l2_book[symbol].ask = LevelDict(resp.asks)]
    IN  IF resp.kind = "fetch_error" THEN [self EXCEPT !.raised = "FetchError"]
        ELSE IF resp.kind = "no_id" THEN [s1 EXCEPT !.raised = "KeyError"]
        ELSE IF ~LevelsParse(resp.bids) THEN [s2 EXCEPT !.raised = "ParseError"]
        ELSE IF ~LevelsParse(resp.asks) THEN [s3 EXCEPT !.raised = "ParseError"]
        ELSE [s4 EXCEPT !.emitted =
                 Append(@, BookEvent(symbol, s4.l2_book[symbol], None, Some(resp.id)))]

(***************************************************************************)
(* GateioFutures._check_update_id                                          *)
(***************************************************************************)
\* (mutant) a synced symbol also takes a batch that starts at or before the
\* next id
VerdictLooseInOrder(awaiting, lastId, U, u) ==
    IF awaiting /\ u <= lastId THEN "stale"
    ELSE IF awaiting /\ U <= lastId + 1 /\ lastId + 1 <= u THEN "bridge"
    ELSE IF ~awaiting /\ lastId + 1 >= U THEN "inorder"
    ELSE "gap"

\* (mutant) the bridge must start strictly before the next id
VerdictStrictBridge(awaiting, lastId, U, u) ==
    IF awaiting /\ u <= lastId THEN "stale"
    ELSE IF awaiting /\ U < lastId + 1 /\ lastId + 1 <= u THEN "bridge"
    ELSE IF ~awaiting /\ lastId + 1 = U THEN "inorder"
    ELSE "gap"

\* (mutant) a batch ending at the stored id is not stale
VerdictStrictStale(awaiting, lastId, U, u) ==
    IF awaiting /\ u < lastId THEN "stale"
    ELSE IF awaiting /\ U <= lastId + 1 /\ lastId + 1 <= u THEN "bridge"
    ELSE IF ~awaiting /\ lastId + 1 = U THEN "inorder"
    ELSE "gap"

\* (mutant) an awaiting symbol takes any batch that is not stale as its bridge
VerdictBridgesGap(awaiting, lastId, U, u) ==
    IF awaiting /\ u <= lastId THEN "stale"
    ELSE IF awaiting THEN "bridge"
    ELSE IF ~awaiting /\ lastId + 1 = U THEN "inorder"
    ELSE "gap"

\* (mutant) the bridge must cover the snapshot's own id, not the one after it
VerdictLateBridge(awaiting, lastId, U, u) ==
    IF awaiting /\ u <= lastId THEN "stale"
    ELSE IF awaiting /\ U <= lastId /\ lastId <= u THEN "bridge"
    ELSE IF ~awaiting /\ lastId + 1 = U THEN "inorder"
    ELSE "gap"

\* the branch of the if/elif chain a batch takes
Verdict(awaiting, lastId, U, u) ==
    IF awaiting /\ u <= lastId THEN "stale"
    ELSE IF awaiting /\ U <= lastId + 1 /\ lastId + 1 <= u THEN "bridge"
    ELSE IF ~awaiting /\ lastId + 1 = U THEN "inorder"
    ELSE "gap"

\* (mutant) the id is advanced to the first id of the batch
AdvanceToFirst(self, pair, msg) == [self EXCEPT !.last_update_id[pair] = msg.U]

\* (mutant) the id of every symbol that has one is moved
AdvanceAll(self, pair, msg) ==
    [self EXCEPT !.last_update_id = [k \in DOMAIN @ |-> msg.u]]

\* self.last_update_id[pair] = msg['u']
Advance(self, pair, msg) == [self EXCEPT !.last_update_id[pair] = msg.u]

\* returns the handler state and skip_update
CheckUpdateId(self, pair, msg) ==
    LET awaiting == pair \notin self.forced   \* forced = not self.forced[pair]
    IN  IF pair \notin DOMAIN self.last_update_id
        THEN [self |-> [self EXCEPT !.raised = "KeyError"], skip |-> TRUE, verdict |-> "none"]
        ELSE LET v == Verdict(awaiting, self.last_update_id[pair], msg.U, msg.u)
             IN  CASE v = "stale" ->
                        [self |-> self, skip |-> TRUE, verdict |-> v]
                   [] v = "bridge" ->
                        [self |-> [Advance(self, pair, msg) EXCEPT !.forced = @ \cup {pair}],
                         skip |-> FALSE, verdict |-> v]
                   [] v = "inorder" ->
                        [self |-> Advance(self, pair, msg), skip |-> FALSE, verdict |-> v]
                   [] OTHER ->
                        [self |-> Reset(self), skip |-> TRUE, verdict |-> v]

(***************************************************************************)
(* GateioFutures._process_l2_book                                          *)
(***************************************************************************)
\* (mutant) a size of zero is stored like any other size
ApplyUpdateStoresZero(acc, update) ==
    IF acc.raised THEN acc
    ELSE IF ~Parses(update.p) \/ ~Parses(update.s) THEN [acc EXCEPT !.raised = TRUE]
    ELSE [acc EXCEPT !.side = Put(@, Decimal(update.p), Decimal(update.s)),
                     !.delta = Append(@, <<Decimal(update.p), Decimal(update.s)>>)]

\* (mutant) a size is added to the size the level holds
ApplyUpdateAccumulates(acc, update) ==
    IF acc.raised THEN acc
    ELSE IF ~Parses(update.p) \/ ~Parses(update.s) THEN [acc EXCEPT !.raised = TRUE]
    ELSE LET price == Decimal(update.p)
             amount == Decimal(update.s)
             held == IF price \in DOMAIN acc.side THEN acc.side[price] ELSE 0
         IN  IF amount = 0
             THEN IF price \in DOMAIN acc.side
                  THEN [acc EXCEPT !.side = Del(@, price),
                                   !.delta = Append(@, <<price, amount>>)]
                  ELSE acc
             ELSE [acc EXCEPT !.side = Put(@, price, held + amount),
                              !.delta = Append(@, <<price, amount>>)]

\* (mutant) a removal is recorded whether or not the level was held
ApplyUpdateRecordsEveryRemoval(acc, update) ==
    IF acc.raised THEN acc
    ELSE IF ~Parses(update.p) \/ ~Parses(update.s) THEN [acc EXCEPT !.raised = TRUE]
    ELSE LET price == Decimal(update.p)
             amount == Decimal(update.s)
         IN  IF amount = 0
             THEN [acc EXCEPT !.side = Del(@, price),
                              !.delta = Append(@, <<price, amount>>)]
             ELSE [acc EXCEPT !.side = Put(@, price, amount),
                              !.delta = Append(@, <<price, amount>>)]

\* one pass of the inner loop body over one update of one side
ApplyUpdate(acc, update) ==
    IF acc.raised THEN acc
    ELSE IF ~Parses(update.p) \/ ~Parses(update.s) THEN [acc EXCEPT !.raised = TRUE]
    ELSE LET price == Decimal(update.p)
             amount == Decimal(update.s)
         IN  IF amount = 0
             THEN IF price \in DOMAIN acc.side
                  THEN [acc EXCEPT !.side = Del(@, price),
                                   !.delta = Append(@, <<price, amount>>)]
                  ELSE acc
             ELSE [acc EXCEPT !.side = Put(@, price, amount),
                              !.delta = Append(@, <<price, amount>>)]

\* for update in msg['result'][s]: ...
\* (mutant) the list is walked from its end
RECURSIVE ApplyUpdatesReversed(_, _)
ApplyUpdatesReversed(acc, updates) ==
    IF updates = <<>> THEN acc
    ELSE ApplyUpdate(ApplyUpdatesReversed(acc, Tail(updates)), Head(updates))

RECURSIVE ApplyUpdates(_, _)
ApplyUpdates(acc, updates) ==
    IF updates = <<>> THEN acc
    ELSE ApplyUpdates(ApplyUpdate(acc, Head(updates)), Tail(updates))

\* the part of _process_l2_book after skip_update is found false
ApplyBatch(self, symbol, msg) ==
    LET book == self.l2_book[symbol]
        b == ApplyUpdates([side |-> book[BID], delta |-> <<>>, raised |-> FALSE], msg.b)
        a == ApplyUpdates([side |-> book[ASK], delta |-> <<>>, raised |-> b.raised], msg.a)
        newbook == [bid |-> b.side, ask |-> a.side]
        delta == [bid |-> b.delta, ask |-> a.delta]
        s1 == [self EXCEPT !.l2_book[symbol] = newbook]
    IN  IF a.raised THEN [s1 EXCEPT !.raised = "ParseError"]
        ELSE [s1 EXCEPT !.emitted = Append(@, BookEvent(symbol, newbook, Some(delta), None))]

\* (mutant) the snapshot is requested for every batch
ValidateAlwaysFetches(self, msg, resp) ==
    LET s1 == Snapshot(self, msg.s, resp)
    IN  IF s1.raised # ""
        THEN [self |-> s1, skip |-> TRUE, verdict |-> "none", fetch |-> TRUE]
        ELSE [fetch |-> TRUE] @@ CheckUpdateId(s1, StdSymbol(msg.s), msg)

\* the part of _process_l2_book up to "if skip_update: return"
Validate(self, msg, resp) ==
    LET symbol == StdSymbol(msg.s)
        fetch == symbol \notin DOMAIN self.l2_book
        s1 == IF fetch THEN Snapshot(self, msg.s, resp) ELSE self
    IN  IF s1.raised # ""
        THEN [self |-> s1, skip |-> TRUE, verdict |-> "none", fetch |-> fetch]
        ELSE [fetch |-> fetch] @@ CheckUpdateId(s1, symbol, msg)

Commit(self, entry) ==
    /\ l2_book' = self.l2_book
    /\ last_update_id' = self.last_update_id
    /\ forced' = self.forced
    /\ emitted' = self.emitted
    /\ last' = entry

NoBody == [b |-> <<>>, a |-> <<>>]
NoHeader == [s |-> "", U |-> 0, u |-> 0]

\* What one handler call was given and did: the message, the REST response,
\* the symbols that had a book and those that were synced when it was called,
\* whether the snapshot was requested, the branch of _check_update_id taken,
\* the exception that ended it ("" when it returned) and whether _reset ran.
Entry(op, hdr, body, resp, fetch, verdict, self) ==
    [op |-> op, s |-> hdr.s, U |-> hdr.U, u |-> hdr.u, b |-> body.b, a |-> body.a,
     snapshot |-> resp, books |-> DOMAIN l2_book, synced |-> forced,
     fetch |-> fetch, verdict |-> verdict,
     raised |-> self.raised, reset |-> self.reset]

Idle ==
    [op |-> "idle", s |-> "", U |-> 0, u |-> 0, b |-> <<>>, a |-> <<>>,
     snapshot |-> NoResponse, books |-> {}, synced |-> {},
     fetch |-> FALSE, verdict |-> "none", raised |-> "", reset |-> FALSE]

\* One call of _process_l2_book, from message_handler. The level lists of a
\* message are read only when the batch is accepted, so they are drawn only
\* then.
ProcessL2Book ==
    /\ last.op = "idle"
    /\ \E s \in ExchangeSymbols, r \in SeqRanges :
        LET hdr == [s |-> s, U |-> r.U, u |-> r.u]
            needs == StdSymbol(s) \notin DOMAIN l2_book
        IN  \E resp \in IF needs THEN SnapshotResponses(s) ELSE {NoResponse} :
                LET v == Validate(Self, hdr, resp)
                IN  IF v.skip
                    THEN Commit(v.self, Entry("l2_book", hdr, NoBody, resp,
                                              v.fetch, v.verdict, v.self))
                    ELSE \E b \in BidUpdates(s), a \in AskUpdates(s) :
                            LET body == [b |-> b, a |-> a]
                                done == ApplyBatch(v.self, StdSymbol(s), hdr @@ body)
                            IN  Commit(done, Entry("l2_book", hdr, body, resp,
                                                   v.fetch, v.verdict, done))
    /\ UNCHANGED <<venue, tasks>>

(***************************************************************************)
(* GateioFutures.subscribe: every (re)connect starts from a reset.         *)
(***************************************************************************)
Subscribe ==
    /\ last.op = "idle"
    /\ Commit(Reset(Self), Entry("subscribe", NoHeader, NoBody, NoResponse,
                                 FALSE, "none", Reset(Self)))
    /\ UNCHANGED <<venue, tasks>>

\* The awaited handler (and the callbacks it awaited) has returned or raised;
\* message_handler is ready for the next message.
HandlerReturns ==
    /\ last.op # "idle"
    /\ emitted' = <<>>
    /\ last' = Idle
    /\ UNCHANGED <<l2_book, last_update_id, forced, venue, tasks>>

Init ==
    /\ l2_book = EmptyDict
    /\ last_update_id = EmptyDict
    /\ forced = {}
    /\ emitted = <<>>
    /\ last = Idle
    /\ venue = <<>>
    /\ tasks = <<>>

Next == ProcessL2Book \/ Subscribe \/ HandlerReturns

Spec == Init /\ [][Next]_vars

(***************************************************************************)
(* Vocabulary of the properties.                                           *)
(***************************************************************************)
\* the synchronisation state of a symbol (spec 4.2), read off the three dicts
SyncState(sym) ==
    IF sym \notin DOMAIN l2_book THEN "NoBook"
    ELSE IF sym \in forced THEN "Synced"
    ELSE "AwaitingBridge"

\* this step is one call of _process_l2_book for symbol sym
Handles(sym) == last.op = "idle" /\ last'.op = "l2_book" /\ StdSymbol(last'.s) = sym

\* the call recorded in `entry` passed "if skip_update: return": its batch
\* was accepted and the update loop ran
Accepted(entry) == entry.op = "l2_book" /\ entry.verdict \in {"bridge", "inorder"}

\* the events of the last call that carry a delta (line 292)
UpdateEvents == {i \in 1..Len(emitted) : emitted[i].delta # None}
\* the events of the last call emitted by _snapshot (line 213)
SnapshotEvents == {i \in 1..Len(emitted) : emitted[i].delta = None}

Cleared == l2_book = EmptyDict /\ last_update_id = EmptyDict /\ forced = {}

(***************************************************************************)
(* C1..C5: the sequence validator.                                         *)
(***************************************************************************)
\* C1: for a Synced symbol a batch is accepted, with lastSequenceId set to its
\* lastSeq and the symbol staying Synced, exactly when firstSeq =
\* lastSequenceId + 1; every other batch is not accepted and resets everything.
C1_SyncedAcceptsOnlyNext ==
    [][\A sym \in Symbols :
          (Handles(sym) /\ SyncState(sym) = "Synced") =>
              IF last'.U = last_update_id[sym] + 1
              THEN /\ Accepted(last') /\ ~last'.reset
                   /\ last_update_id'[sym] = last'.u
                   /\ SyncState(sym)' = "Synced"
              ELSE /\ ~Accepted(last') /\ last'.reset
                   /\ Cleared' /\ emitted' = <<>>]_vars

\* a Synced symbol has just had its next batch applied
C1_Witness ==
    /\ last.op = "l2_book" /\ last.verdict = "inorder" /\ last.raised = ""
    /\ StdSymbol(last.s) \in last.synced
    /\ last_update_id[StdSymbol(last.s)] = last.u
    /\ UpdateEvents # {}

\* the id a batch is validated against while its symbol awaits the bridge:
\* the id of the snapshot this call loaded, else the stored one
Baseline(sym) == IF last'.fetch THEN last'.snapshot.id ELSE last_update_id[sym]

\* this step validates a batch for sym, which awaits its bridge batch
ValidatesAwaiting(sym) ==
    /\ Handles(sym) /\ last'.verdict # "none"
    /\ sym \notin forced
    /\ last'.fetch \/ sym \in DOMAIN last_update_id

\* C2: for a symbol awaiting its bridge with baseline L, a batch is accepted
\* and makes the symbol Synced with lastSequenceId = lastSeq exactly when
\* firstSeq <= L + 1 <= lastSeq; a batch with firstSeq > L + 1 resets.
C2_BridgeCondition ==
    [][\A sym \in Symbols :
          ValidatesAwaiting(sym) =>
              LET L == Baseline(sym)
                  bridges == last'.U <= L + 1 /\ L + 1 <= last'.u
              IN  /\ bridges <=> Accepted(last')
                  /\ bridges => /\ SyncState(sym)' = "Synced"
                                 /\ last_update_id'[sym] = last'.u
                                 /\ ~last'.reset
                  /\ last'.U > L + 1 => last'.reset /\ Cleared']_vars

\* a batch that starts before the baseline's successor has bridged: stored
\* id 1, batch (1, 2)
C2_Witness ==
    /\ last.op = "l2_book" /\ last.verdict = "bridge" /\ ~last.fetch
    /\ last.U = 1 /\ last.u = 2
    /\ StdSymbol(last.s) \in forced
    /\ last_update_id[StdSymbol(last.s)] = 2

\* C3: for a symbol that awaits its bridge, a batch with lastSeq <=
\* lastSequenceId changes nothing: books, ids and sync states stay, no event
\* is emitted and nothing is reset.
C3_StaleDiscarded ==
    [][\A sym \in Symbols :
          (/\ Handles(sym) /\ SyncState(sym) = "AwaitingBridge"
           /\ sym \in DOMAIN last_update_id
           /\ last'.u <= last_update_id[sym]) =>
              /\ l2_book' = l2_book
              /\ last_update_id' = last_update_id
              /\ forced' = forced
              /\ emitted' = <<>>
              /\ ~last'.reset /\ ~Accepted(last') /\ last'.raised = ""]_vars

\* a stale batch has been discarded for a symbol that had a book and waited
C3_Witness ==
    /\ last.op = "l2_book" /\ last.verdict = "stale" /\ ~last.fetch
    /\ SyncState(StdSymbol(last.s)) = "AwaitingBridge"
    /\ last.u <= last_update_id[StdSymbol(last.s)]
    /\ l2_book[StdSymbol(last.s)].bid # EmptyDict

\* C4: while a symbol stays Synced its lastSequenceId never decreases, and it
\* changes only by an accepted batch of that symbol, to that batch's lastSeq.
C4_SyncedMonotonic ==
    [][\A sym \in Symbols :
          SyncState(sym)' = "Synced" =>
              IF Handles(sym) /\ Accepted(last')
              THEN /\ last_update_id'[sym] = last'.u
                   /\ SyncState(sym) = "Synced" =>
                          last_update_id'[sym] >= last_update_id[sym]
              ELSE /\ SyncState(sym) = "Synced"
                   /\ last_update_id'[sym] = last_update_id[sym]]_vars

\* a Synced symbol has accepted a batch spanning several ids
C4_Witness ==
    /\ last.op = "l2_book" /\ last.verdict = "inorder"
    /\ StdSymbol(last.s) \in last.synced
    /\ last.U < last.u
    /\ last_update_id[StdSymbol(last.s)] = last.u

\* C5: a reset caused by one symbol's gap clears book, id and sync state of
\* every symbol, and a symbol without a book gets a batch applied only in a
\* call that loads its snapshot and finds the batch to bridge it.
C5_ResetIsGlobal ==
    [][\A sym \in Symbols :
          /\ (last.op = "idle" /\ last'.op = "l2_book" /\ last'.reset) =>
                 /\ Cleared'
                 /\ SyncState(sym)' = "NoBook"
          /\ (Handles(sym) /\ Accepted(last') /\ SyncState(sym) = "NoBook") =>
                 /\ last'.fetch /\ last'.snapshot.kind = "ok"
                 /\ last'.verdict = "bridge"
                 /\ last'.U <= last'.snapshot.id + 1
                 /\ last'.snapshot.id + 1 <= last'.u
          /\ (Handles(sym) /\ last'.verdict = "inorder") =>
                 SyncState(sym) = "Synced"]_vars

\* a gap on one of two Synced symbols has cleared both
C5_Witness ==
    /\ last.op = "l2_book" /\ last.reset /\ last.verdict = "gap"
    /\ last.synced = Symbols
    /\ Cleared

(***************************************************************************)
(* C6..C10: snapshot loading, events and the update loop.                  *)
(***************************************************************************)
\* the response is a payload _snapshot loads to the end
Loadable(resp) == resp.kind = "ok" /\ LevelsParse(resp.bids) /\ LevelsParse(resp.asks)

\* the book a loadable response describes
SnapshotBook(resp) == [bid |-> LevelDict(resp.bids), ask |-> LevelDict(resp.asks)]

\* C6: a batch requests a snapshot exactly when its symbol has no book (first
\* sight or after a reset); the snapshot is loaded and announced first and the
\* same batch is then validated against the snapshot's id: stale, bridge or gap.
C6_SnapshotThenValidate ==
    [][\A sym \in Symbols :
          Handles(sym) =>
              /\ last'.fetch <=> SyncState(sym) = "NoBook"
              /\ ~last'.fetch => SnapshotEvents' = {}
              /\ (last'.fetch /\ Loadable(last'.snapshot)) =>
                    LET id == last'.snapshot.id
                    IN  /\ Len(emitted') >= 1
                        /\ emitted'[1] = BookEvent(sym, SnapshotBook(last'.snapshot),
                                                    None, Some(id))
                        /\ last'.verdict \in {"stale", "bridge", "gap"}
                        /\ last'.verdict = "stale" <=> last'.u <= id
                        /\ last'.verdict = "bridge" <=>
                               (last'.U <= id + 1 /\ id + 1 <= last'.u)
                        /\ last'.verdict = "stale" =>
                               /\ last_update_id'[sym] = id
                               /\ l2_book'[sym] = SnapshotBook(last'.snapshot)]_vars

\* after a reset a batch has loaded a snapshot and was found stale against it
C6_Witness ==
    /\ last.op = "l2_book" /\ last.fetch /\ last.verdict = "stale"
    /\ last.snapshot.id >= last.u
    /\ Len(emitted) = 1
    /\ StdSymbol(last.s) \in DOMAIN l2_book
    /\ Symbols \ DOMAIN l2_book # {}

\* C7 as claimed: a call that ends in a reset emits no book event at all and
\* leaves no book.
C7_ResetEmitsNothing ==
    (last.op = "l2_book" /\ last.reset) => (emitted = <<>> /\ l2_book = EmptyDict)

\* C7, amended: a call that ends in a reset emits no event for its batch and
\* leaves no book; when the batch came for a symbol without a book, the one
\* event is that of the snapshot loaded before the batch was validated.
C7_ResetEmitsNoUpdate ==
    (last.op = "l2_book" /\ last.reset) =>
        /\ UpdateEvents = {}
        /\ Cleared
        /\ emitted = IF last.fetch
                      THEN <<BookEvent(StdSymbol(last.s), SnapshotBook(last.snapshot),
                                       None, Some(last.snapshot.id))>>
                      ELSE <<>>

\* a batch for a symbol without a book has gapped against the fresh snapshot
C7_Witness ==
    /\ last.op = "l2_book" /\ last.reset /\ last.fetch
    /\ last.U > last.snapshot.id + 1
    /\ Len(emitted) = 1

\* C8: no book side stores a size that is not strictly positive, in the
\* books held and in the books handed to the sink.
C8_SizesPositive ==
    /\ \A sym \in DOMAIN l2_book : \A side \in {BID, ASK} :
          \A price \in DOMAIN l2_book[sym][side] : l2_book[sym][side][price] > 0
    /\ \A i \in 1..Len(emitted) : \A side \in {BID, ASK} :
          \A price \in DOMAIN emitted[i].book[side] : emitted[i].book[side][price] > 0

\* a removal of a held level has been applied: the level is gone
C8_Witness ==
    /\ Accepted(last) /\ last.raised = ""
    /\ \E i \in 1..Len(last.b) :
          /\ last.b[i].s = "0"
          /\ Decimal(last.b[i].p) \notin DOMAIN l2_book[StdSymbol(last.s)][BID]
          /\ \E k \in UpdateEvents : \E j \in 1..Len(emitted[k].delta[1][BID]) :
                emitted[k].delta[1][BID][j] = <<Decimal(last.b[i].p), 0>>

\* a level of the message does not parse
Malformed(entry) ==
    \/ \E i \in 1..Len(entry.b) : ~Parses(entry.b[i].p) \/ ~Parses(entry.b[i].s)
    \/ \E i \in 1..Len(entry.a) : ~Parses(entry.a[i].p) \/ ~Parses(entry.a[i].s)

\* C9: a message with an unparsable level mutates no book and leaves the id
\* and the sync state of every symbol as they were; it resets nothing. (Stated
\* for a symbol that has its book, so that no snapshot load is involved.)
C9_MalformedChangesNothing ==
    [][\A sym \in Symbols :
          (Handles(sym) /\ Malformed(last') /\ SyncState(sym) # "NoBook") =>
              /\ l2_book' = l2_book
              /\ last_update_id' = last_update_id
              /\ forced' = forced
              /\ ~last'.reset]_vars

\* the level list of one side, as the call recorded by `last` received it
Updates(side) == IF side = BID THEN last.b ELSE last.a

\* C10: after an accepted batch every update with size > 0 is in the delta
\* record, and the level of the last update of a price holds exactly that
\* update's size, whatever it held before.
C10_ReplaceNotAccumulate ==
    (Accepted(last) /\ last.raised = "") =>
        \A side \in {BID, ASK} : \A i \in 1..Len(Updates(side)) :
            LET ups == Updates(side)
                price == Decimal(ups[i].p)
                size == Decimal(ups[i].s)
                book == l2_book[StdSymbol(last.s)]
                delta == emitted[Len(emitted)].delta[1]
            IN  size > 0 =>
                  /\ \E k \in 1..Len(delta[side]) : delta[side][k] = <<price, size>>
                  /\ (\A j \in (i + 1)..Len(ups) : Decimal(ups[j].p) # price) =>
                        /\ price \in DOMAIN book[side]
                        /\ book[side][price] = size

\* a level the snapshot gave size 1 has received size 2 and holds 2
C10_Witness ==
    /\ Accepted(last) /\ last.raised = "" /\ last.fetch
    /\ last.snapshot.bids # <<>>
    /\ last.snapshot.bids[1] = [p |-> "1.0", s |-> "1"]
    /\ last.b = <<[p |-> "1", s |-> "2"]>>
    /\ l2_book[StdSymbol(last.s)][BID][1] = 2

(***************************************************************************)
(* C11..C14: removals, events and the state a snapshot leaves.             *)
(***************************************************************************)
\* the book of sym the update loop of this step's call starts from
PreBook(sym) == IF last'.fetch THEN SnapshotBook(last'.snapshot) ELSE l2_book[sym]

\* the level list of one side, as this step's call received it
NextUpdates(side) == IF side = BID THEN last'.b ELSE last'.a

\* C11: removals of prices the side does not hold change nothing and record
\* nothing, and removing a price twice is removing it once: when a side's
\* updates are all removals, the side loses exactly the named prices it held
\* and the delta record has one (price, 0) entry for each of those, no other.
C11_RemovalIdempotent ==
    [][\A sym \in Symbols :
          (Handles(sym) /\ Accepted(last') /\ last'.raised = "") =>
              \A side \in {BID, ASK} :
                  LET ups == NextUpdates(side)
                      named == {Decimal(ups[i].p) : i \in 1..Len(ups)}
                      pre == PreBook(sym)[side]
                      held == named \cap DOMAIN pre
                      delta == emitted'[Len(emitted')].delta[1][side]
                  IN  (\A i \in 1..Len(ups) : Decimal(ups[i].s) = 0) =>
                          /\ l2_book'[sym][side] = [p \in (DOMAIN pre) \ named |-> pre[p]]
                          /\ Len(delta) = Cardinality(held)
                          /\ \A k \in 1..Len(delta) :
                                delta[k][2] = 0 /\ delta[k][1] \in held]_vars

\* price 1 was removed twice in one batch: the first removal took the level
\* and was recorded, the second found it absent and recorded nothing
C11_Witness ==
    /\ Accepted(last) /\ last.raised = ""
    /\ last.b = <<[p |-> "1", s |-> "0"], [p |-> "1", s |-> "0"]>>
    /\ emitted[Len(emitted)].delta[1][BID] = <<(<<1, 0>>)>>
    /\ 1 \notin DOMAIN l2_book[StdSymbol(last.s)][BID]

\* C12: a call whose batch is accepted emits exactly one event for it, with
\* the book as it is after the batch; a call whose batch is not accepted emits
\* no event for it.
C12_OneEventPerAcceptedBatch ==
    last.op = "l2_book" =>
        IF Accepted(last)
        THEN /\ Cardinality(UpdateEvents) = 1
             /\ emitted[Len(emitted)].delta # None
             /\ emitted[Len(emitted)].book = l2_book[StdSymbol(last.s)]
        ELSE UpdateEvents = {}

\* C13: the event of an applied batch carries the symbol's new sequence id.
C13_EventCarriesNewId ==
    \A k \in UpdateEvents :
        emitted[k].sequence_number = Some(last_update_id[StdSymbol(last.s)])

\* C14: a call that loads a snapshot announces exactly the snapshot's levels
\* and id; if its batch is then discarded the symbol holds those levels and
\* that id and awaits its bridge; the symbol is Synced after the call only if
\* the batch bridged.
C14_SnapshotLeavesAwaiting ==
    (last.op = "l2_book" /\ last.fetch /\ Loadable(last.snapshot)) =>
        LET sym == StdSymbol(last.s)
        IN  /\ emitted # <<>>
            /\ emitted[1] = BookEvent(sym, SnapshotBook(last.snapshot), None,
                                       Some(last.snapshot.id))
            /\ last.verdict = "stale" =>
                  /\ l2_book[sym] = SnapshotBook(last.snapshot)
                  /\ last_update_id[sym] = last.snapshot.id
                  /\ SyncState(sym) = "AwaitingBridge"
            /\ sym \in forced => last.verdict = "bridge"
            /\ last.verdict # "bridge" => ~Accepted(last)

\* a snapshot with levels and the largest id was loaded and its batch was
\* stale: the symbol holds the snapshot and waits
C14_Witness ==
    /\ last.op = "l2_book" /\ last.fetch /\ last.verdict = "stale"
    /\ last.snapshot.id = MaxSeq
    /\ last.snapshot.bids # <<>>
    /\ l2_book[StdSymbol(last.s)] = SnapshotBook(last.snapshot)
    /\ last_update_id[StdSymbol(last.s)] = MaxSeq
    /\ StdSymbol(last.s) \notin forced

(***************************************************************************)
(* C17, C18, C20: the delta record, failed snapshot loads, other symbols.  *)
(***************************************************************************)
\* the largest element of a non-empty set of indices
MaxOf(S) == CHOOSE i \in S : \A j \in S : j <= i

\* C17: the delta record of an applied batch holds, per side and in batch
\* order, exactly the updates that took effect: those with size > 0 and the
\* removals whose price was held at that moment; for a price named more than
\* once the last update decides the level.
C17_DeltaIsAppliedUpdates ==
    [][\A sym \in Symbols :
          (Handles(sym) /\ Accepted(last') /\ last'.raised = "") =>
              \A side \in {BID, ASK} :
                  LET ups == NextUpdates(side)
                      pre == PreBook(sym)[side]
                      post == l2_book'[sym][side]
                      delta == emitted'[Len(emitted')].delta[1][side]
                      price(i) == Decimal(ups[i].p)
                      size(i) == Decimal(ups[i].s)
                      earlier(i) == {j \in 1..(i - 1) : price(j) = price(i)}
                      held(i) == IF earlier(i) = {} THEN price(i) \in DOMAIN pre
                                 ELSE size(MaxOf(earlier(i))) > 0
                      kept == {i \in 1..Len(ups) : size(i) > 0 \/ held(i)}
                      named(p) == {i \in 1..Len(ups) : price(i) = p}
                  IN  /\ Len(delta) = Cardinality(kept)
                      /\ \A i \in kept :
                            delta[Cardinality({j \in kept : j <= i})] = <<price(i), size(i)>>
                      /\ \A p \in DOMAIN pre \cup DOMAIN post \cup {price(i) : i \in 1..Len(ups)} :
                            IF named(p) = {}
                            THEN p \in DOMAIN pre /\ p \in DOMAIN post /\ post[p] = pre[p]
                            ELSE IF size(MaxOf(named(p))) > 0
                                 THEN p \in DOMAIN post /\ post[p] = size(MaxOf(named(p)))
                                 ELSE p \notin DOMAIN post]_vars

\* price 1 was set and then removed in one batch: both are recorded, in that
\* order, and the removal decided the level
C17_Witness ==
    /\ Accepted(last) /\ last.raised = ""
    /\ last.b = <<[p |-> "1", s |-> "2"], [p |-> "1", s |-> "0"]>>
    /\ emitted[Len(emitted)].delta[1][BID] = <<(<<1, 2>>), (<<1, 0>>)>>
    /\ 1 \notin DOMAIN l2_book[StdSymbol(last.s)][BID]

\* C18: a call whose snapshot could not be loaded (the request failed or the
\* payload was malformed) leaves nothing of the symbol behind: no book, no id,
\* no sync flag, no event, and its batch is not applied.
C18_FailedSnapshotLeavesNothing ==
    (last.op = "l2_book" /\ last.fetch /\ ~Loadable(last.snapshot)) =>
        LET sym == StdSymbol(last.s)
        IN  /\ sym \notin DOMAIN l2_book
            /\ sym \notin DOMAIN last_update_id
            /\ sym \notin forced
            /\ emitted = <<>>
            /\ ~Accepted(last)

\* what the handler holds of one symbol
SymbolState(sym) ==
    <<IF sym \in DOMAIN l2_book THEN Some(l2_book[sym]) ELSE None,
      IF sym \in DOMAIN last_update_id THEN Some(last_update_id[sym]) ELSE None,
      SyncState(sym)>>

\* C20: a call that handles a batch of one symbol and does not reset leaves
\* the bids, asks, sequence id and sync state of every other symbol as they
\* were.
C20_OtherSymbolsUntouched ==
    [][\A sym \in Symbols :
          (Handles(sym) /\ ~last'.reset) =>
              \A other \in Symbols \ {sym} : SymbolState(other)' = SymbolState(other)]_vars

\* a batch of one symbol was applied while another symbol holds a book with
\* a different id
C20_Witness ==
    /\ Accepted(last) /\ last.raised = "" /\ ~last.reset
    /\ \E other \in Symbols \ {StdSymbol(last.s)} :
          /\ other \in DOMAIN l2_book /\ other \in DOMAIN last_update_id
          /\ last_update_id[other] # last_update_id[StdSymbol(last.s)]

(***************************************************************************)
(* C19: the handler fed by a venue that keeps its side of the protocol.    *)
(* The venue numbers its level changes 1, 2, ...; its book after change n  *)
(* holds, per price, the size of the last change of that price up to n.    *)
(* A snapshot with id S is that book after S; a batch (U, u) names every   *)
(* price changed by U..u with its size after u. Batches may arrive in any  *)
(* order, repeated or with gaps, and the connection may be re-subscribed.  *)
(***************************************************************************)
VenueSymbol == "BTC_USD"
VenueChanges ==
    { [side |-> BID, p |-> 1, s |-> 2], [side |-> BID, p |-> 1, s |-> 0],
      [side |-> BID, p |-> 2, s |-> 1], [side |-> ASK, p |-> 3, s |-> 1],
      [side |-> ASK, p |-> 3, s |-> 0] }
VenueHistories == [1..MaxSeq -> VenueChanges]

\* the ids up to n that changed price p of a side
ChangesOf(side, p, n) ==
    {i \in 1..n : i \in DOMAIN venue /\ venue[i].side = side /\ venue[i].p = p}
\* the size the venue holds at price p of a side after change n (0: no level)
VenueSize(side, p, n) ==
    IF ChangesOf(side, p, n) = {} THEN 0 ELSE venue[MaxOf(ChangesOf(side, p, n))].s
VenuePrices(side) == {c.p : c \in {d \in VenueChanges : d.side = side}}
VenueSide(side, n) ==
    [p \in {q \in VenuePrices(side) : VenueSize(side, q, n) > 0} |-> VenueSize(side, p, n)]
\* the venue's book after change n
VenueBook(n) == [bid |-> VenueSide(BID, n), ask |-> VenueSide(ASK, n)]

\* the decimal literal the venue writes for a value
Token(v) == CHOOSE tok \in {"0", "1", "2", "3"} : Decimal(tok) = v
\* a price -> size map as the venue's level list, ascending in price
RECURSIVE LevelList(_)
LevelList(d) ==
    IF DOMAIN d = {} THEN <<>>
    ELSE LET p == CHOOSE q \in DOMAIN d : \A r \in DOMAIN d : q <= r
         IN  <<[p |-> Token(p), s |-> Token(d[p])]>>
             \o LevelList([r \in (DOMAIN d) \ {p} |-> d[r]])

VenueSnapshot(S) ==
    Response("ok", S, [bids |-> LevelList(VenueSide(BID, S)),
                       asks |-> LevelList(VenueSide(ASK, S))])
\* the levels of one side changed by U..u, each with its size after u
VenueLevels(side, U, u) ==
    LevelList([p \in {q \in VenuePrices(side) : ChangesOf(side, q, u) \ ChangesOf(side, q, U - 1) # {}}
                  |-> VenueSize(side, p, u)])
VenueBatch(U, u) == [b |-> VenueLevels(BID, U, u), a |-> VenueLevels(ASK, U, u)]

\* one call of _process_l2_book with the given message and REST response
Handle(hdr, resp, body) ==
    LET v == Validate(Self, hdr, resp)
        done == ApplyBatch(v.self, StdSymbol(hdr.s), hdr @@ body)
    IN  IF v.skip
        THEN Commit(v.self, Entry("l2_book", hdr, NoBody, resp, v.fetch, v.verdict, v.self))
        ELSE Commit(done, Entry("l2_book", hdr, body, resp, v.fetch, v.verdict, done))

\* the venue's batch of any range arrives; if the symbol has no book the REST
\* request fails or answers with the venue's book after some id
VenueDeliver ==
    /\ last.op = "idle"
    /\ \E r \in SeqRanges :
        LET hdr == [s |-> VenueSymbol, U |-> r.U, u |-> r.u]
            needs == StdSymbol(VenueSymbol) \notin DOMAIN l2_book
        IN  \E resp \in IF needs
                         THEN {VenueSnapshot(S) : S \in 0..MaxSeq}
                              \cup {Response("fetch_error", 0, NoLevels)}
                         ELSE {NoResponse} :
                Handle(hdr, resp, VenueBatch(r.U, r.u))
    /\ UNCHANGED <<venue, tasks>>

InitVenue ==
    /\ l2_book = EmptyDict
    /\ last_update_id = EmptyDict
    /\ forced = {}
    /\ emitted = <<>>
    /\ last = Idle
    /\ venue \in VenueHistories
    /\ tasks = <<>>

NextVenue == VenueDeliver \/ Subscribe \/ HandlerReturns

SpecVenue == InitVenue /\ [][NextVenue]_vars

\* C19: whenever a symbol is Synced with last_update_id = n its local bids and
\* asks are the venue's book after change n.
C19_MirrorsVenue ==
    \A sym \in Symbols :
        SyncState(sym) = "Synced" => l2_book[sym] = VenueBook(last_update_id[sym])

\* a bridge batch whose range starts at or before the snapshot's id and ends
\* after it was applied to a fresh snapshot and changed the book
C19_Witness ==
    /\ last.op = "l2_book" /\ last.fetch /\ last.verdict = "bridge" /\ last.raised = ""
    /\ last.U <= last.snapshot.id /\ last.snapshot.id < last.u
    /\ SyncState(StdSymbol(last.s)) = "Synced"
    /\ l2_book[StdSymbol(last.s)] # SnapshotBook(last.snapshot)
    /\ l2_book[StdSymbol(last.s)].bid # <<>>

(***************************************************************************)
(* C15: an endless stream. _check_update_id compares ids only with <=, ==  *)
(* and + 1, so subtracting one number from every id of a symbol changes no *)
(* branch; here each symbol's ids are counted from the end of its last     *)
(* batch, which keeps an endless stream within a finite range: the batch   *)
(* that continues the stream has U = 1, a batch after a lost one has U = 2,*)
(* and a snapshot with id -1 is older than the stream by one update.       *)
(***************************************************************************)
HealRanges == {r \in [U : 1..2, u : 1..MaxSeq] : r.U <= r.u}
\* every request succeeds with a well-formed payload
HealSnapshots(s) ==
    {Response("ok", i, b) : i \in (-1)..MaxSeq,
                            b \in {x \in SnapshotBodies(s) : Loadable(Response("ok", 0, x))}}
HealBodies == {NoBody, [b |-> <<[p |-> "1", s |-> "2"]>>, a |-> <<>>]}

\* the next batch of symbol s arrives
HealDeliver(s) ==
    /\ last.op = "idle"
    /\ \E r \in HealRanges :
        LET hdr == [s |-> s, U |-> r.U, u |-> r.u]
            needs == StdSymbol(s) \notin DOMAIN l2_book
        IN  \E resp \in IF needs THEN HealSnapshots(s) ELSE {NoResponse}, body \in HealBodies :
                Handle(hdr, resp, body)
    /\ UNCHANGED <<venue, tasks>>

\* the ids of symbol sym counted from n
Renumber(ids, sym, n) ==
    [k \in DOMAIN ids |-> IF k = sym THEN ids[k] - n ELSE ids[k]]

\* the handler has returned; the symbol's ids are from now on counted from
\* the end of the batch just handled
HealReturns ==
    /\ last.op # "idle"
    /\ emitted' = <<>>
    /\ last' = Idle
    /\ last_update_id' = Renumber(last_update_id, StdSymbol(last.s), last.u)
    /\ UNCHANGED <<l2_book, forced, venue, tasks>>

NextHeal == (\E s \in ExchangeSymbols : HealDeliver(s)) \/ HealReturns

\* the stream keeps delivering every symbol's batches and every call returns
SpecHeal ==
    /\ Init
    /\ [][NextHeal]_vars
    /\ WF_vars(HealReturns)
    /\ \A s \in ExchangeSymbols : SF_vars(HealDeliver(s))

HealSynced(s) == SyncState(StdSymbol(s)) = "Synced"
\* the last batch did not continue its symbol's stream
Discontinuous == last.op = "l2_book" /\ last.U # 1
\* the last call loaded a snapshot that ends before the update preceding
\* its batch
Lagging == last.op = "l2_book" /\ last.fetch /\ last.snapshot.id + 1 < last.U

\* C15 as stated: after a full reset, if every fetch succeeds and the batches
\* keep arriving in order and contiguous, every symbol is eventually Synced.
C15_SelfHeals ==
    \A s \in ExchangeSymbols :
        []((Cleared /\ []~Discontinuous) => <>HealSynced(s))

\* C15: after a full reset, if every fetch succeeds, the batches keep
\* arriving in order and contiguous and no snapshot is older than the update
\* preceding the batch that requested it, every symbol is eventually Synced
\* and stays Synced.
C15_SelfHealsOnFreshSnapshots ==
    \A s \in ExchangeSymbols :
        []((Cleared /\ [](~Discontinuous /\ ~Lagging)) => <>[]HealSynced(s))

\* a symbol held a snapshot that was ahead of the stream, discarded the
\* batches it already contained and has now taken its bridge
C15_Witness ==
    /\ last.op = "l2_book" /\ ~last.fetch /\ last.verdict = "bridge"
    /\ StdSymbol(last.s) \in last.books /\ StdSymbol(last.s) \notin last.synced
    /\ HealSynced(last.s)

(***************************************************************************)
(* C16: the handler step by step. A coroutine gives up control only at an  *)
(* await: the REST request of _snapshot (line 205), the book callback of   *)
(* _snapshot (line 213) and the book callback of _process_l2_book (line    *)
(* 292). tasks holds the calls of _process_l2_book that have started and   *)
(* not ended, each with the await it is suspended at.                      *)
(***************************************************************************)
Frame(hdr, pc, fetched) ==
    [s |-> hdr.s, U |-> hdr.U, u |-> hdr.u, pc |-> pc, fetched |-> fetched]
Header(frame) == [s |-> frame.s, U |-> frame.U, u |-> frame.u]
\* the calls in flight other than the i-th
Without(i) == SubSeq(tasks, 1, i - 1) \o SubSeq(tasks, i + 1, Len(tasks))

\* (mutant) message_handler starts _process_l2_book without awaiting it
MessageHandlerDetaches == Len(tasks) < MaxTasks

\* message_handler awaits _process_l2_book (line 362): it has returned only
\* when no call of _process_l2_book is in flight
MessageHandlerReturned == tasks = <<>>

\* the connection's reader awaits message_handler before it reads the next
\* message
ReaderReady == MessageHandlerReturned

Store(self, before) ==
    /\ l2_book' = self.l2_book
    /\ last_update_id' = self.last_update_id
    /\ forced' = self.forced
    /\ emitted' = before \o self.emitted

\* _process_l2_book from line 272 to its end or to the await of line 292
Continue(self, hdr, fetched, others, before) ==
    LET c == CheckUpdateId(self, StdSymbol(hdr.s), hdr)
    IN  IF c.skip
        THEN Store(c.self, before) /\ tasks' = others
        ELSE \E body \in HealBodies :
                LET done == ApplyBatch(c.self, StdSymbol(hdr.s), hdr @@ body)
                IN  /\ Store(done, before)
                    /\ tasks' = IF done.raised # "" THEN others
                                ELSE Append(others, Frame(hdr, "update_callback", fetched))

\* message_handler is called with an order_book_update and runs
\* _process_l2_book to its first await or to its end
Receive ==
    /\ ReaderReady
    /\ \E s \in ExchangeSymbols, r \in SeqRanges :
        LET hdr == [s |-> s, U |-> r.U, u |-> r.u]
        IN  IF StdSymbol(s) \notin DOMAIN l2_book
            THEN /\ tasks' = Append(tasks, Frame(hdr, "fetch", TRUE))
                 /\ emitted' = <<>>
                 /\ UNCHANGED <<l2_book, last_update_id, forced>>
            ELSE Continue(Self, hdr, FALSE, tasks, <<>>)
    /\ UNCHANGED <<last, venue>>

\* the REST request of line 205 completes; _snapshot runs to the await of
\* line 213 or raises
FetchReturns ==
    /\ \E i \in DOMAIN tasks :
        /\ tasks[i].pc = "fetch"
        /\ \E resp \in SnapshotResponses(tasks[i].s) :
            LET s1 == Snapshot(Self, tasks[i].s, resp)
            IN  /\ Store(s1, emitted)
                /\ tasks' = IF s1.raised # "" THEN Without(i)
                            ELSE Append(Without(i),
                                        Frame(Header(tasks[i]), "snapshot_callback", TRUE))
    /\ UNCHANGED <<last, venue>>

\* the book callback of line 213 returns; _process_l2_book goes on at line 272
SnapshotCallbackReturns ==
    /\ \E i \in DOMAIN tasks :
        /\ tasks[i].pc = "snapshot_callback"
        /\ Continue(Self, Header(tasks[i]), TRUE, Without(i), emitted)
    /\ UNCHANGED <<last, venue>>

\* the book callback of line 292 returns and _process_l2_book ends
UpdateCallbackReturns ==
    /\ \E i \in DOMAIN tasks :
        /\ tasks[i].pc = "update_callback"
        /\ tasks' = Without(i)
    /\ UNCHANGED <<l2_book, last_update_id, forced, emitted, last, venue>>

NextSteps == Receive \/ FetchReturns \/ SnapshotCallbackReturns \/ UpdateCallbackReturns

SpecSteps == Init /\ [][NextSteps]_vars

\* C16 as stated: a call in flight is suspended nowhere but at the snapshot
\* request.
C16_SuspendsOnlyAtFetch ==
    \A i \in DOMAIN tasks : tasks[i].pc = "fetch"

\* C16: at most one batch is in flight; it is suspended at the snapshot
\* request or at one of the two book callbacks; while it is in flight every
\* step is a step of that batch, and while the request is outstanding the
\* books, ids and sync flags do not change.
C16_OneBatchAtATime ==
    [][/\ Len(tasks) <= 1
       /\ tasks # <<>> =>
            /\ tasks[1].pc \in {"fetch", "snapshot_callback", "update_callback"}
            /\ tasks' = <<>> \/ (Len(tasks') = 1 /\ Header(tasks'[1]) = Header(tasks[1]))
            /\ (tasks' # <<>> /\ tasks'[1].pc = "fetch") =>
                    UNCHANGED <<l2_book, last_update_id, forced>>]_vars

\* a batch that requested a snapshot and bridged it is suspended at its own
\* book callback, both events emitted, and nothing else is in flight
C16_Witness ==
    /\ Len(tasks) = 1
    /\ tasks[1].pc = "update_callback" /\ tasks[1].fetched
    /\ Len(emitted) = 2
    /\ SyncState(StdSymbol(tasks[1].s)) = "Synced"

====
